---------------------------- MODULE Spec2Model ----------------------------
(***************************************************************************)
(* The blockchain_verifier canister                                        *)
(* (src/src/blockchain_verifier/src/lib.rs): its four keyed tables, the    *)
(* verify_transaction pipeline and the read-only queries.                  *)
(*                                                                         *)
(* Conventions.                                                            *)
(*  - Option<T>: None is the empty sequence, Some(x) the sequence <<x>>.   *)
(*  - BTreeMap<String, V>: a function whose DOMAIN is the set of keys.     *)
(*  - A String that the code assembles (format!, join, take) is a sequence *)
(*    of one-character strings, so that concatenation and truncation are   *)
(*    computed; a String that is only ever a literal is a TLA+ string.     *)
(*  - f64 literals and u64 literals beyond TLC's 32-bit integers are kept  *)
(*    as their decimal text.                                               *)
(*  - A canister executes one message at a time, and verify_transaction    *)
(*    awaits only local async fns that are ready at once (it makes no      *)
(*    inter-canister call), so a call runs to completion uninterrupted.    *)
(*    pc is the position of the call being executed; every other entry     *)
(*    point is enabled only when pc = "idle".                              *)
(***************************************************************************)
EXTENDS Integers, Sequences, FiniteSets, TLC

VARIABLES
    TRANSACTIONS,       \* Option<BTreeMap<String, BlockchainTransaction>>
    MERKLE_TREES,       \* Option<BTreeMap<String, MerkleTree>>
    CONSENSUS_PROOFS,   \* Option<BTreeMap<String, ConsensusProof>>
    VERIFICATION_LOGS,  \* Option<BTreeMap<String, Vec<VerificationLog>>>
    time,               \* ic_cdk::api::time(), constant within one message
    pc,                 \* position of the verify_transaction call in execution
    run,                \* the locals of that call
    response,           \* the reply to the message executed last
    completed,          \* per transaction_id, the calls that have returned
    stable,             \* Option of what stable_save wrote to stable memory
    pending             \* per transaction_id, the calls accepted and waiting

vars == <<TRANSACTIONS, MERKLE_TREES, CONSENSUS_PROOFS, VERIFICATION_LOGS,
          time, pc, run, response, completed, stable, pending>>

\* what lies outside the canister's heap: stable memory and the input queue
platform == <<stable, pending>>

tables == <<TRANSACTIONS, MERKLE_TREES, CONSENSUS_PROOFS, VERIFICATION_LOGS>>

-----------------------------------------------------------------------------
(* Bounds of the model. *)

\* the canister clock runs over 0..MaxTime
MaxTime == 1

\* verify_transaction calls accepted over a behaviour
MaxRuns == 2

\* caller-supplied transaction identifiers
TxIds == {<<"t", "1">>, <<"t", "2">>}

\* caller-supplied policy identifiers
PolicyIds == {<<"p", "1">>, <<"p", "2">>}

\* values Uuid::new_v4() can return
Uuids == {<<"u", "1">>, <<"u", "2">>}

\* format!("QS_TX_{}", Uuid::new_v4().to_string()) (lib.rs 354)
QsTxId(uuid) == <<"Q", "S", "_", "T", "X", "_">> \o uuid

\* every transaction_id a call can run under
AllIds == TxIds \cup {QsTxId(uuid) : uuid \in Uuids}

-----------------------------------------------------------------------------
(* Option, Result and String helpers. *)

None == <<>>

Some(x) == <<x>>

Unwrap(o) == o[1]

Ok(v) == [tag |-> "Ok", value |-> v]

Err(e) == [tag |-> "Err", value |-> e]

Min(a, b) == IF a <= b THEN a ELSE b

\* .chars().take(n).collect()
Take(s, n) == SubSeq(s, 1, Min(n, Len(s)))

Digits == <<"0", "1", "2", "3", "4", "5", "6", "7", "8", "9">>

\* the Display of an unsigned integer, as format!("{}", n) prints it
RECURSIVE U64ToString(_)
U64ToString(n) ==
    IF n < 10 THEN <<Digits[n + 1]>>
    ELSE U64ToString(n \div 10) \o <<Digits[(n % 10) + 1]>>

\* [String].join("")
RECURSIVE Join(_)
Join(strs) == IF strs = <<>> THEN <<>> ELSE Head(strs) \o Join(Tail(strs))

\* an insert that keeps the value of a key already there
Insert_keep(map, k, v) ==
    [x \in (DOMAIN map) \cup {k} |-> IF x \in DOMAIN map THEN map[x] ELSE v]

\* BTreeMap::insert
Insert(map, k, v) ==
    [x \in (DOMAIN map) \cup {k} |-> IF x = k THEN v ELSE map[x]]

EmptyMap == <<>>

-----------------------------------------------------------------------------
(* The hash-like string builders (lib.rs 542-576).  Each reads the canister *)
(* clock, passed here as now.                                               *)

\* format!("0x{}{}", transaction_id, time()).chars().take(64).collect()
generate_block_hash(transaction_id, now) ==
    Take(<<"0", "x">> \o transaction_id \o U64ToString(now), 64)

\* time() / 12
generate_block_number(now) == now \div 12

\* format!("0x{}{}", policy_id, time()).chars().take(64).collect()
generate_transaction_hash(policy_id, now) ==
    Take(<<"0", "x">> \o policy_id \o U64ToString(now), 64)

\* format!("CROSS_CHAIN_PROOF_{}{}", transaction_id, time())
generate_cross_chain_proof(transaction_id, now) ==
    <<"C", "R", "O", "S", "S", "_", "C", "H", "A", "I", "N", "_",
      "P", "R", "O", "O", "F", "_">> \o transaction_id \o U64ToString(now)

\* format!("SIG_{}{}", transaction_id, time()).chars().take(32).collect()
generate_signature_hash(transaction_id, now) ==
    Take(<<"S", "I", "G", "_">> \o transaction_id \o U64ToString(now), 32)

\* format!("HASH_LOCK_{}{}", transaction_id, time()).chars().take(64).collect()
generate_hash_lock(transaction_id, now) ==
    Take(<<"H", "A", "S", "H", "_", "L", "O", "C", "K", "_">>
         \o transaction_id \o U64ToString(now), 64)

\* a root made of the first leaf alone
generate_merkle_root_first(leaf_hashes) ==
    <<"M", "E", "R", "K", "L", "E", "_", "R", "O", "O", "T", "_">>
    \o Head(leaf_hashes)

\* format!("MERKLE_ROOT_{}", leaf_hashes.join(""))
generate_merkle_root(leaf_hashes) ==
    <<"M", "E", "R", "K", "L", "E", "_", "R", "O", "O", "T", "_">>
    \o Join(leaf_hashes)

\* the paths collected in the opposite order
generate_proof_paths_reversed(leaf_hashes) ==
    [i \in 1..Len(leaf_hashes) |->
        <<leaf_hashes[Len(leaf_hashes) + 1 - i],
          <<"S", "I", "B", "L", "I", "N", "G", "_", "H", "A", "S", "H">> >>]

\* leaf_hashes.iter().map(|leaf| vec![leaf.clone(), "SIBLING_HASH"]).collect()
generate_proof_paths(leaf_hashes) ==
    [i \in 1..Len(leaf_hashes) |->
        <<leaf_hashes[i],
          <<"S", "I", "B", "L", "I", "N", "G", "_", "H", "A", "S", "H">> >>]

\* format!("CONSENSUS_PROOF_{}{}", transaction_id, time())
generate_consensus_proof(transaction_id, now) ==
    <<"C", "O", "N", "S", "E", "N", "S", "U", "S", "_",
      "P", "R", "O", "O", "F", "_">> \o transaction_id \o U64ToString(now)

-----------------------------------------------------------------------------
(* The evidence stages (lib.rs 372-520).                                    *)

\* a verification stage that returns no evidence
perform_cross_chain_verification_none(transaction_id, now) == <<>>

perform_cross_chain_verification(transaction_id, now) ==
    << [blockchain |-> "Ethereum",
        transaction_hash |-> <<"0", "x">> \o transaction_id,
        verification_status |-> TRUE,
        confirmation_count |-> 12,
        verification_timestamp |-> now,
        consensus_achieved |-> TRUE,
        cross_chain_proof |-> generate_cross_chain_proof(transaction_id, now)],
       [blockchain |-> "Polygon",
        transaction_hash |-> <<"0", "x">> \o transaction_id,
        verification_status |-> TRUE,
        confirmation_count |-> 15,
        verification_timestamp |-> now,
        consensus_achieved |-> TRUE,
        cross_chain_proof |-> generate_cross_chain_proof(transaction_id, now)],
       [blockchain |-> "Solana",
        transaction_hash |-> transaction_id,
        verification_status |-> TRUE,
        confirmation_count |-> 20,
        verification_timestamp |-> now,
        consensus_achieved |-> TRUE,
        cross_chain_proof |-> generate_cross_chain_proof(transaction_id, now)],
       [blockchain |-> "ICP",
        transaction_hash |-> <<"I", "C", "P", "_", "T", "X", "_">> \o transaction_id,
        verification_status |-> TRUE,
        confirmation_count |-> 8,
        verification_timestamp |-> now,
        consensus_achieved |-> TRUE,
        cross_chain_proof |-> generate_cross_chain_proof(transaction_id, now)] >>

generate_quantum_signature(transaction_id, now) ==
    Some([signature_type |-> "Post-Quantum",
          public_key |-> <<"Q", "S", "_", "P", "U", "B", "_">> \o transaction_id,
          signature |-> <<"Q", "S", "_", "S", "I", "G", "_">>
                        \o generate_signature_hash(transaction_id, now),
          verification_status |-> TRUE,
          quantum_resistance_level |-> "Level 3",
          signature_timestamp |-> now,
          post_quantum_algorithm |-> "CRYSTALS-Kyber"])

create_zero_knowledge_proof(transaction_id, now) ==
    Some([proof_type |-> "zk-SNARK",
          proof_data |-> <<"Z", "K", "_", "P", "R", "O", "O", "F", "_">>
                         \o transaction_id,
          verification_key |-> <<"Z", "K", "_", "V", "K", "_">> \o transaction_id,
          proof_validity |-> TRUE,
          privacy_level |-> "High",
          proof_timestamp |-> now,
          zk_snark_parameters |->
              [proving_key |-> <<"P", "K", "_">> \o transaction_id,
               verification_key |-> <<"V", "K", "_">> \o transaction_id,
               trusted_setup |-> "Trusted Setup Complete",
               circuit_constraints |-> 1000000,
               proof_size |-> 2048]])

\* amount and the time_lock offset exceed TLC's integers: the amount is kept
\* as its decimal text, the time lock as the clock value and the added offset
verify_atomic_swap(transaction_id, now) ==
    Some([swap_id |-> <<"S", "W", "A", "P", "_">> \o transaction_id,
          source_chain |-> "Ethereum",
          destination_chain |-> "ICP",
          amount |-> "1000000000000000000",
          swap_status |-> "Completed",
          hash_lock |-> generate_hash_lock(transaction_id, now),
          time_lock |-> [time |-> now, plus |-> "3600 * 1_000_000_000"],
          participants |-> <<"0x1234...", "ICP_Principal">>,
          swap_timestamp |-> now])

apply_layer2_optimization(transaction_id, now) ==
    Some([layer2_protocol |-> "Optimistic Rollup",
          rollup_type |-> "Arbitrum",
          gas_savings |-> "0.85",
          transaction_speed |-> "10.0",
          security_level |-> "High",
          optimization_timestamp |-> now,
          batch_size |-> 1000,
          compression_ratio |-> "0.75"])

verify_sharding(transaction_id, now) ==
    Some([shard_id |-> <<"S", "H", "A", "R", "D", "_">> \o transaction_id,
          shard_count |-> 64,
          verification_status |-> TRUE,
          consensus_mechanism |-> "Proof of Stake",
          cross_shard_communication |-> TRUE,
          sharding_timestamp |-> now,
          shard_validators |-> <<"Validator_1", "Validator_2", "Validator_3">>,
          shard_consensus_score |-> "0.95"])

\* create_merkle_tree with the depth stored as leaf_count
create_merkle_tree_count(transaction_id) ==
    LET leaf_hashes ==
            << <<"L", "E", "A", "F", "_", "1", "_">> \o transaction_id,
               <<"L", "E", "A", "F", "_", "2", "_">> \o transaction_id,
               <<"L", "E", "A", "F", "_", "3", "_">> \o transaction_id,
               <<"L", "E", "A", "F", "_", "4", "_">> \o transaction_id >>
    IN  [root_hash |-> generate_merkle_root(leaf_hashes),
         leaf_count |-> 2,
         tree_depth |-> 2,
         leaf_hashes |-> leaf_hashes,
         proof_paths |-> generate_proof_paths(leaf_hashes),
         verification_status |-> TRUE]

create_merkle_tree(transaction_id) ==
    LET leaf_hashes ==
            << <<"L", "E", "A", "F", "_", "1", "_">> \o transaction_id,
               <<"L", "E", "A", "F", "_", "2", "_">> \o transaction_id,
               <<"L", "E", "A", "F", "_", "3", "_">> \o transaction_id,
               <<"L", "E", "A", "F", "_", "4", "_">> \o transaction_id >>
    IN  [root_hash |-> generate_merkle_root(leaf_hashes),
         leaf_count |-> Len(leaf_hashes),
         tree_depth |-> 2,
         leaf_hashes |-> leaf_hashes,
         proof_paths |-> generate_proof_paths(leaf_hashes),
         verification_status |-> TRUE]

\* achieve_consensus with the flag left false
achieve_consensus_unachieved(transaction_id, cross_chain_verifications, now) ==
    [consensus_id |-> <<"C", "O", "N", "S", "E", "N", "S", "U", "S", "_">>
                      \o transaction_id,
     participating_chains |->
         [i \in 1..Len(cross_chain_verifications) |->
             cross_chain_verifications[i].blockchain],
     consensus_threshold |-> 3,
     achieved_consensus |-> FALSE,
     consensus_timestamp |-> now,
     proof_data |-> generate_consensus_proof(transaction_id, now),
     validator_signatures |-> <<"ETH_VALIDATOR_SIG", "POLYGON_VALIDATOR_SIG",
                                "SOLANA_VALIDATOR_SIG", "ICP_VALIDATOR_SIG">>]

\* achieve_consensus listing only the chains that verified
achieve_consensus_verified(transaction_id, cross_chain_verifications, now) ==
    LET Verified(v) == v.verification_status
        verified == SelectSeq(cross_chain_verifications, Verified)
    IN  [consensus_id |-> <<"C", "O", "N", "S", "E", "N", "S", "U", "S", "_">>
                          \o transaction_id,
         participating_chains |->
             [i \in 1..Len(verified) |-> verified[i].blockchain],
         consensus_threshold |-> 3,
         achieved_consensus |-> TRUE,
         consensus_timestamp |-> now,
         proof_data |-> generate_consensus_proof(transaction_id, now),
         validator_signatures |-> <<"ETH_VALIDATOR_SIG", "POLYGON_VALIDATOR_SIG",
                                    "SOLANA_VALIDATOR_SIG", "ICP_VALIDATOR_SIG">>]

achieve_consensus(transaction_id, cross_chain_verifications, now) ==
    [consensus_id |-> <<"C", "O", "N", "S", "E", "N", "S", "U", "S", "_">>
                      \o transaction_id,
     participating_chains |->
         [i \in 1..Len(cross_chain_verifications) |->
             cross_chain_verifications[i].blockchain],
     consensus_threshold |-> 3,
     achieved_consensus |-> TRUE,
     consensus_timestamp |-> now,
     proof_data |-> generate_consensus_proof(transaction_id, now),
     validator_signatures |-> <<"ETH_VALIDATOR_SIG", "POLYGON_VALIDATOR_SIG",
                                "SOLANA_VALIDATOR_SIG", "ICP_VALIDATOR_SIG">>]

\* the simulated per-chain checks (lib.rs 522-540)
verify_on_ethereum(policy_id) == TRUE

verify_on_polygon(policy_id) == TRUE

verify_on_solana(policy_id) == TRUE

verify_on_icp(policy_id) == TRUE

\* the struct literal of lines 306-314
MultiChainVerification(policy_id, now) ==
    [blockchain |-> "Multi-Chain",
     transaction_hash |-> generate_transaction_hash(policy_id, now),
     verification_status |-> TRUE,
     confirmation_count |-> 15,
     verification_timestamp |-> now,
     consensus_achieved |-> TRUE,
     cross_chain_proof |-> generate_cross_chain_proof(policy_id, now)]

-----------------------------------------------------------------------------
(* The pieces of verify_transaction (lib.rs 209-294).                       *)

\* the locals of a call before any is bound
NoRun ==
    [transaction_id |-> <<>>, now |-> 0, block_hash |-> <<>>,
     cross_chain_verification |-> <<>>, quantum_signature |-> <<>>,
     zero_knowledge_proof |-> <<>>, atomic_swap_details |-> <<>>,
     layer2_optimization |-> <<>>, sharding_verification |-> <<>>,
     merkle_tree |-> <<>>, consensus_proof |-> <<>>, transaction |-> <<>>,
     caller |-> "none", overlapped |-> FALSE, unavailable |-> {}]

NoResponse == [op |-> "none", arg |-> <<>>, result |-> <<>>]

\* the record left in its initial status
BlockchainTransaction_pending(r) ==
    [transaction_id |-> r.transaction_id,
     block_hash |-> r.block_hash,
     block_number |-> generate_block_number(r.now),
     timestamp |-> r.now,
     gas_used |-> 21000,
     gas_price |-> "20000000000",
     status |-> "Pending",
     confirmations |-> 12,
     merkle_proof |-> r.merkle_tree.leaf_hashes,
     cross_chain_verification |-> r.cross_chain_verification,
     quantum_signature |-> r.quantum_signature,
     zero_knowledge_proof |-> r.zero_knowledge_proof,
     atomic_swap_details |-> r.atomic_swap_details,
     layer2_optimization |-> r.layer2_optimization,
     sharding_verification |-> r.sharding_verification]

\* the struct literal of lines 240-256, over the locals r; gas_price exceeds
\* TLC's integers and is kept as its decimal text
\* the record marked Failed when an enrichment is missing
BlockchainTransaction_strict(r) ==
    [BlockchainTransaction_pending(r) EXCEPT
        !.status = IF None \in {r.quantum_signature, r.zero_knowledge_proof,
                                r.atomic_swap_details, r.layer2_optimization,
                                r.sharding_verification}
                   THEN "Failed"
                   ELSE "CrossChainConfirmed"]

BlockchainTransaction(r) ==
    [transaction_id |-> r.transaction_id,
     block_hash |-> r.block_hash,
     block_number |-> generate_block_number(r.now),
     timestamp |-> r.now,
     gas_used |-> 21000,
     gas_price |-> "20000000000",
     status |-> "CrossChainConfirmed",
     confirmations |-> 12,
     merkle_proof |-> r.merkle_tree.leaf_hashes,
     cross_chain_verification |-> r.cross_chain_verification,
     quantum_signature |-> r.quantum_signature,
     zero_knowledge_proof |-> r.zero_knowledge_proof,
     atomic_swap_details |-> r.atomic_swap_details,
     layer2_optimization |-> r.layer2_optimization,
     sharding_verification |-> r.sharding_verification]

\* the struct literal of lines 273-281
\* the entry written without the block hash
VerificationLog_nohash(r, uuid) ==
    [log_id |-> <<"L", "O", "G", "_">> \o uuid,
     transaction_id |-> r.transaction_id,
     verification_type |-> "Cross-Chain Verification",
     status |-> TRUE,
     timestamp |-> r.now,
     details |-> "Transaction verified across multiple blockchains",
     blockchain_hash |-> None]

VerificationLog(r, uuid) ==
    [log_id |-> <<"L", "O", "G", "_">> \o uuid,
     transaction_id |-> r.transaction_id,
     verification_type |-> "Cross-Chain Verification",
     status |-> TRUE,
     timestamp |-> r.now,
     details |-> "Transaction verified across multiple blockchains",
     blockchain_hash |-> Some(r.block_hash)]

\* the id's Vec replaced by a one-entry Vec
PushLog_overwrite(logs, transaction_id, log_entry) ==
    Insert(logs, transaction_id, <<log_entry>>)

\* the entry pushed once more
PushLog_twice(logs, transaction_id, log_entry) ==
    IF transaction_id \in DOMAIN logs
    THEN [logs EXCEPT ![transaction_id] = Append(Append(@, log_entry), log_entry)]
    ELSE Insert(logs, transaction_id, <<log_entry, log_entry>>)

\* the entry built and dropped
PushLog_skip(logs, transaction_id, log_entry) == logs

\* the entry put in front of the id's log
PushLog_front(logs, transaction_id, log_entry) ==
    IF transaction_id \in DOMAIN logs
    THEN [logs EXCEPT ![transaction_id] = <<log_entry>> \o @]
    ELSE Insert(logs, transaction_id, <<log_entry>>)

\* the log table replaced by one that holds the log of this id alone
PushLog_only(logs, transaction_id, log_entry) ==
    IF transaction_id \in DOMAIN logs
    THEN Insert(EmptyMap, transaction_id, Append(logs[transaction_id], log_entry))
    ELSE Insert(EmptyMap, transaction_id, <<log_entry>>)

\* lines 283-287: push onto the id's Vec, or insert a one-entry Vec
PushLog(logs, transaction_id, log_entry) ==
    IF transaction_id \in DOMAIN logs
    THEN [logs EXCEPT ![transaction_id] = Append(@, log_entry)]
    ELSE Insert(logs, transaction_id, <<log_entry>>)

\* `if let Some(ref mut m) = TABLE { ... }`: f applied to the map when there
\* is one, nothing done otherwise
IfSome(table, updated) == IF table # None THEN Some(updated) ELSE table

-----------------------------------------------------------------------------
(* The queries (lib.rs 319-350), as functions of the tables.                *)

\* the lookup left out
get_transaction_miss(transaction_id) ==
    IF TRANSACTIONS # None
    THEN Err("Transaction not found")
    ELSE Err("Transactions not initialized")

get_transaction(transaction_id) ==
    IF TRANSACTIONS # None
    THEN IF transaction_id \in DOMAIN Unwrap(TRANSACTIONS)
         THEN Ok(Unwrap(TRANSACTIONS)[transaction_id])
         ELSE Err("Transaction not found")
    ELSE Err("Transactions not initialized")

\* the byte values of the characters that occur in keys
CharCode(c) ==
    CASE c = "1" -> 49 [] c = "2" -> 50 [] c = "Q" -> 81 [] c = "S" -> 83
      [] c = "T" -> 84 [] c = "X" -> 88 [] c = "_" -> 95 [] c = "p" -> 112
      [] c = "t" -> 116 [] c = "u" -> 117

\* String's Ord: bytewise lexicographic
RECURSIVE StrLess(_, _)
StrLess(a, b) ==
    IF b = <<>> THEN FALSE
    ELSE IF a = <<>> THEN TRUE
    ELSE IF CharCode(Head(a)) # CharCode(Head(b))
         THEN CharCode(Head(a)) < CharCode(Head(b))
         ELSE StrLess(Tail(a), Tail(b))

\* the keys of a BTreeMap in iteration order
RECURSIVE KeysInOrder(_)
KeysInOrder(keys) ==
    IF keys = {} THEN <<>>
    ELSE LET least == CHOOSE k \in keys : \A o \in keys \ {k} : StrLess(k, o)
         IN  <<least>> \o KeysInOrder(keys \ {least})

get_all_transactions ==
    IF TRANSACTIONS # None
    THEN LET keys == KeysInOrder(DOMAIN Unwrap(TRANSACTIONS))
         IN  [i \in 1..Len(keys) |-> Unwrap(TRANSACTIONS)[keys[i]]]
    ELSE <<>>

\* the logs of every key, the argument ignored
get_verification_logs_anykey(transaction_id) ==
    IF VERIFICATION_LOGS # None
    THEN LET keys == KeysInOrder(DOMAIN Unwrap(VERIFICATION_LOGS))
         IN  Join([i \in 1..Len(keys) |-> Unwrap(VERIFICATION_LOGS)[keys[i]]])
    ELSE <<>>

get_verification_logs(transaction_id) ==
    IF VERIFICATION_LOGS # None
    THEN IF transaction_id \in DOMAIN Unwrap(VERIFICATION_LOGS)
         THEN Unwrap(VERIFICATION_LOGS)[transaction_id]
         ELSE <<>>
    ELSE <<>>

-----------------------------------------------------------------------------
(* The state machine.                                                       *)

RECURSIVE SumOver(_, _)
SumOver(f, keys) ==
    IF keys = {} THEN 0
    ELSE LET k == CHOOSE x \in keys : TRUE
         IN  f[k] + SumOver(f, keys \ {k})

\* calls of verify_transaction accepted so far: returned, in execution, waiting
Started ==
    SumOver(completed, AllIds) + (IF pc \in {"idle", "upgrade"} THEN 0 ELSE 1)
        + SumOver(pending, TxIds)

\* init (lib.rs 170-180)
Init ==
    /\ TRANSACTIONS = Some(EmptyMap)
    /\ MERKLE_TREES = Some(EmptyMap)
    /\ CONSENSUS_PROOFS = Some(EmptyMap)
    /\ VERIFICATION_LOGS = Some(EmptyMap)
    /\ time = 0
    /\ pc = "idle"
    /\ run = NoRun
    /\ response = NoResponse
    /\ completed = [id \in AllIds |-> 0]
    /\ stable = None
    /\ pending = [id \in TxIds |-> 0]

\* the clock advances between messages
Tick ==
    /\ pc = "idle"
    /\ time < MaxTime
    /\ time' = time + 1
    /\ UNCHANGED <<platform, tables, pc, run, response, completed>>

\* lines 210-214: the call is taken up, now and block_hash are bound
VerifyBegin(transaction_id) ==
    /\ pc = "idle"
    /\ Started < MaxRuns
    /\ run' = [NoRun EXCEPT !.transaction_id = transaction_id,
                            !.now = time,
                            !.block_hash = generate_block_hash(transaction_id, time)]
    /\ pc' = "evidence"
    /\ response' = NoResponse
    /\ UNCHANGED <<platform, tables, time, completed>>

\* lines 216-232: cross-chain verification and the five enrichers
VerifyEvidence ==
    /\ pc = "evidence"
    /\ run' = [run EXCEPT
          !.cross_chain_verification =
              perform_cross_chain_verification(run.transaction_id, time),
          !.quantum_signature = generate_quantum_signature(run.transaction_id, time),
          !.zero_knowledge_proof = create_zero_knowledge_proof(run.transaction_id, time),
          !.atomic_swap_details = verify_atomic_swap(run.transaction_id, time),
          !.layer2_optimization = apply_layer2_optimization(run.transaction_id, time),
          !.sharding_verification = verify_sharding(run.transaction_id, time)]
    /\ pc' = "assemble"
    /\ UNCHANGED <<platform, tables, time, response, completed>>

\* lines 235-256: merkle tree, consensus proof, the composite record
VerifyAssemble ==
    /\ pc = "assemble"
    /\ LET tree == create_merkle_tree(run.transaction_id)
           proof == achieve_consensus(run.transaction_id,
                                      run.cross_chain_verification, time)
           bound == [run EXCEPT !.merkle_tree = tree, !.consensus_proof = proof]
       IN  run' = [bound EXCEPT !.transaction = BlockchainTransaction(bound)]
    /\ pc' = "persist"
    /\ UNCHANGED <<platform, tables, time, response, completed>>

\* the ConsensusProof of an id written only when the id has none yet
VerifyPersist_torn ==
    /\ pc = "persist"
    /\ \E uuid \in Uuids :
        /\ TRANSACTIONS' = IfSome(TRANSACTIONS,
               Insert(Unwrap(TRANSACTIONS), run.transaction_id, run.transaction))
        /\ MERKLE_TREES' = IfSome(MERKLE_TREES,
               Insert(Unwrap(MERKLE_TREES), run.transaction_id, run.merkle_tree))
        /\ CONSENSUS_PROOFS' =
               IF /\ CONSENSUS_PROOFS # None
                  /\ run.transaction_id \in DOMAIN Unwrap(CONSENSUS_PROOFS)
               THEN CONSENSUS_PROOFS
               ELSE IfSome(CONSENSUS_PROOFS,
                        Insert(Unwrap(CONSENSUS_PROOFS), run.transaction_id,
                               run.consensus_proof))
        /\ VERIFICATION_LOGS' = IfSome(VERIFICATION_LOGS,
               PushLog(Unwrap(VERIFICATION_LOGS), run.transaction_id,
                       VerificationLog(run, uuid)))
    /\ pc' = "return"
    /\ UNCHANGED <<platform, time, run, response, completed>>

\* lines 258-289: the three inserts and the log entry
VerifyPersist ==
    /\ pc = "persist"
    /\ \E uuid \in Uuids :
        /\ TRANSACTIONS' = IfSome(TRANSACTIONS,
               Insert(Unwrap(TRANSACTIONS), run.transaction_id, run.transaction))
        /\ MERKLE_TREES' = IfSome(MERKLE_TREES,
               Insert(Unwrap(MERKLE_TREES), run.transaction_id, run.merkle_tree))
        /\ CONSENSUS_PROOFS' = IfSome(CONSENSUS_PROOFS,
               Insert(Unwrap(CONSENSUS_PROOFS), run.transaction_id,
                      run.consensus_proof))
        /\ VERIFICATION_LOGS' = IfSome(VERIFICATION_LOGS,
               PushLog(Unwrap(VERIFICATION_LOGS), run.transaction_id,
                       VerificationLog(run, uuid)))
    /\ pc' = "return"
    /\ UNCHANGED <<platform, time, run, response, completed>>

\* line 293: Ok(transaction)
VerifyReturn ==
    /\ pc = "return"
    /\ run.caller = "none"
    /\ response' = [op |-> "verify_transaction", arg |-> run.transaction_id,
                    result |-> Ok(run.transaction)]
    /\ completed' = [completed EXCEPT ![run.transaction_id] = @ + 1]
    /\ pc' = "idle"
    /\ run' = NoRun
    /\ UNCHANGED <<platform, tables, time>>

\* lines 364-368: `verify_transaction(..).await?` passes an error on, and the
\* id is returned otherwise
CreateResult(transaction_id, verified) ==
    IF verified.tag = "Ok" THEN Ok(transaction_id) ELSE verified

\* the pipeline run under the caller's policy_id instead of the new id
CreateBegin_policy(policy_id) ==
    /\ pc = "idle"
    /\ Started < MaxRuns
    /\ run' = [NoRun EXCEPT
          !.transaction_id = policy_id,
          !.now = time,
          !.block_hash = generate_block_hash(policy_id, time),
          !.caller = "create_quantum_secure_transaction"]
    /\ pc' = "evidence"
    /\ response' = NoResponse
    /\ UNCHANGED <<platform, tables, time, completed>>

\* create_quantum_secure_transaction, lines 353-364: the id is generated (a
\* version-4 UUID is taken never to repeat an id already run under), a
\* quantum signature and a zero-knowledge proof are built and dropped, and
\* verify_transaction is entered with the new id (lines 210-214)
CreateBegin(policy_id) ==
    /\ pc = "idle"
    /\ Started < MaxRuns
    /\ \E uuid \in Uuids :
        LET transaction_id == QsTxId(uuid)
            quantum_signature == generate_quantum_signature(transaction_id, time)
            zero_knowledge_proof == create_zero_knowledge_proof(transaction_id, time)
        IN  /\ completed[transaction_id] = 0
            /\ run' = [NoRun EXCEPT
                  !.transaction_id = transaction_id,
                  !.now = time,
                  !.block_hash = generate_block_hash(transaction_id, time),
                  !.caller = "create_quantum_secure_transaction"]
    /\ pc' = "evidence"
    /\ response' = NoResponse
    /\ UNCHANGED <<platform, tables, time, completed>>

\* line 293 inside create_quantum_secure_transaction, then lines 364-368
CreateReturn ==
    /\ pc = "return"
    /\ run.caller = "create_quantum_secure_transaction"
    /\ response' = [op |-> "create_quantum_secure_transaction", arg |-> <<>>,
                    result |-> CreateResult(run.transaction_id,
                                            Ok(run.transaction))]
    /\ completed' = [completed EXCEPT ![run.transaction_id] = @ + 1]
    /\ pc' = "idle"
    /\ run' = NoRun
    /\ UNCHANGED <<platform, tables, time>>

\* get_transaction taking the record out of the table (remove for get)
GetTransaction_remove(transaction_id) ==
    /\ pc = "idle"
    /\ response' = [op |-> "get_transaction", arg |-> transaction_id,
                    result |-> get_transaction(transaction_id)]
    /\ TRANSACTIONS' = IfSome(TRANSACTIONS,
           [k \in DOMAIN Unwrap(TRANSACTIONS) \ {transaction_id} |->
               Unwrap(TRANSACTIONS)[k]])
    /\ UNCHANGED <<platform, MERKLE_TREES, CONSENSUS_PROOFS, VERIFICATION_LOGS,
                   time, pc, run, completed>>

\* the query get_transaction, called with transaction_id
GetTransaction(transaction_id) ==
    /\ pc = "idle"
    /\ response' = [op |-> "get_transaction", arg |-> transaction_id,
                    result |-> get_transaction(transaction_id)]
    /\ UNCHANGED <<platform, tables, time, pc, run, completed>>

\* the query get_all_transactions
GetAllTransactions ==
    /\ pc = "idle"
    /\ response' = [op |-> "get_all_transactions", arg |-> <<>>,
                    result |-> get_all_transactions]
    /\ UNCHANGED <<platform, tables, time, pc, run, completed>>

\* the query get_verification_logs, called with transaction_id
GetVerificationLogs(transaction_id) ==
    /\ pc = "idle"
    /\ response' = [op |-> "get_verification_logs", arg |-> transaction_id,
                    result |-> get_verification_logs(transaction_id)]
    /\ UNCHANGED <<platform, tables, time, pc, run, completed>>

\* verify_cross_chain_transaction writing its result into the transactions
\* table under policy_id
VerifyCrossChainTransaction_persist(policy_id) ==
    /\ pc = "idle"
    /\ response' = [op |-> "verify_cross_chain_transaction", arg |-> policy_id,
                    result |-> Ok(MultiChainVerification(policy_id, time))]
    /\ TRANSACTIONS' = IfSome(TRANSACTIONS,
           Insert(Unwrap(TRANSACTIONS), policy_id,
                  MultiChainVerification(policy_id, time)))
    /\ UNCHANGED <<platform, MERKLE_TREES, CONSENSUS_PROOFS, VERIFICATION_LOGS,
                   time, pc, run, completed>>

\* verify_cross_chain_transaction (lib.rs 296-317): the four simulated checks,
\* whose results are dropped, and the aggregate returned
VerifyCrossChainTransaction(policy_id) ==
    /\ pc = "idle"
    /\ LET ethereum_verification == verify_on_ethereum(policy_id)
           polygon_verification == verify_on_polygon(policy_id)
           solana_verification == verify_on_solana(policy_id)
           icp_verification == verify_on_icp(policy_id)
       IN  response' = [op |-> "verify_cross_chain_transaction",
                        arg |-> policy_id,
                        result |-> Ok(MultiChainVerification(policy_id, time))]
    /\ UNCHANGED <<platform, tables, time, pc, run, completed>>

Next ==
    \/ Tick
    \/ \E transaction_id \in TxIds : VerifyBegin(transaction_id)
    \/ VerifyEvidence
    \/ VerifyAssemble
    \/ VerifyPersist
    \/ VerifyReturn
    \/ \E transaction_id \in TxIds : GetTransaction(transaction_id)
    \/ GetAllTransactions
    \/ \E transaction_id \in TxIds : GetVerificationLogs(transaction_id)
    \/ \E policy_id \in PolicyIds : VerifyCrossChainTransaction(policy_id)
    \/ \E policy_id \in PolicyIds : CreateBegin(policy_id)
    \/ CreateReturn

Spec == Init /\ [][Next]_vars

\* a call in execution runs to completion: it awaits nothing that suspends it
VerifyStep ==
    VerifyEvidence \/ VerifyAssemble \/ VerifyPersist \/ VerifyReturn \/ CreateReturn

FairSpec == Spec /\ WF_vars(VerifyStep)

-----------------------------------------------------------------------------
(* Upgrade (lib.rs 182-207).  install_code runs pre_upgrade on the old      *)
(* instance and post_upgrade on the new one, whose statics start as None,   *)
(* with no other message in between; each hook is one message execution.    *)

\* post_upgrade with the assignment of VERIFICATION_LOGS left out
PostUpgrade_partial ==
    /\ pc = "upgrade"
    /\ stable # None
    /\ TRANSACTIONS' = Some(Unwrap(stable)[1])
    /\ MERKLE_TREES' = Some(Unwrap(stable)[2])
    /\ CONSENSUS_PROOFS' = Some(Unwrap(stable)[3])
    /\ VERIFICATION_LOGS' = VERIFICATION_LOGS
    /\ pc' = "idle"
    /\ UNCHANGED <<time, run, response, completed, stable, pending>>

\* pre_upgrade: each table is taken out of its static (unwrap traps on None,
\* and a trap leaves the canister as it was), and the four are saved as one
\* tuple
PreUpgrade ==
    /\ pc = "idle"
    /\ TRANSACTIONS # None
    /\ MERKLE_TREES # None
    /\ CONSENSUS_PROOFS # None
    /\ VERIFICATION_LOGS # None
    /\ stable' = Some(<<Unwrap(TRANSACTIONS), Unwrap(MERKLE_TREES),
                        Unwrap(CONSENSUS_PROOFS), Unwrap(VERIFICATION_LOGS)>>)
    /\ TRANSACTIONS' = None
    /\ MERKLE_TREES' = None
    /\ CONSENSUS_PROOFS' = None
    /\ VERIFICATION_LOGS' = None
    /\ pc' = "upgrade"
    /\ response' = NoResponse
    /\ UNCHANGED <<time, run, completed, pending>>

\* post_upgrade: the tuple is restored (unwrap traps when there is none) and
\* the four statics are set
PostUpgrade ==
    /\ pc = "upgrade"
    /\ stable # None
    /\ TRANSACTIONS' = Some(Unwrap(stable)[1])
    /\ MERKLE_TREES' = Some(Unwrap(stable)[2])
    /\ CONSENSUS_PROOFS' = Some(Unwrap(stable)[3])
    /\ VERIFICATION_LOGS' = Some(Unwrap(stable)[4])
    /\ pc' = "idle"
    /\ UNCHANGED <<time, run, response, completed, stable, pending>>

\* the update calls and the upgrade hooks; the queries, which write nothing,
\* are left out
NextUpgrade ==
    \/ Tick
    \/ \E transaction_id \in TxIds : VerifyBegin(transaction_id)
    \/ VerifyEvidence
    \/ VerifyAssemble
    \/ VerifyPersist
    \/ VerifyReturn
    \/ \E policy_id \in PolicyIds : CreateBegin(policy_id)
    \/ CreateReturn
    \/ PreUpgrade
    \/ PostUpgrade

SpecUpgrade == Init /\ [][NextUpgrade]_vars

-----------------------------------------------------------------------------
(* Overlapping calls.  verify_transaction awaits only futures of this       *)
(* canister, which are ready at once, so a call runs from line 210 to line  *)
(* 293 within one message execution.  A second call for the same id that    *)
(* arrives in the meantime waits in the input queue and is executed later:  *)
(* the two calls are outstanding together, their executions are not         *)
(* interleaved.                                                             *)

\* a call of verify_transaction(transaction_id) arrives while a run for the
\* same id is executing, and is queued
Arrive(transaction_id) ==
    /\ pc \in {"evidence", "assemble", "persist", "return"}
    /\ run.transaction_id = transaction_id
    /\ Started < MaxRuns
    /\ pending' = [pending EXCEPT ![transaction_id] = @ + 1]
    /\ UNCHANGED <<stable, tables, time, pc, run, response, completed>>

\* lines 210-214 for a call taken from the queue
VerifyBeginPending(transaction_id) ==
    /\ pc = "idle"
    /\ pending[transaction_id] > 0
    /\ pending' = [pending EXCEPT ![transaction_id] = @ - 1]
    /\ run' = [NoRun EXCEPT !.transaction_id = transaction_id,
                            !.now = time,
                            !.block_hash = generate_block_hash(transaction_id, time),
                            !.overlapped = TRUE]
    /\ pc' = "evidence"
    /\ response' = NoResponse
    /\ UNCHANGED <<stable, tables, time, completed>>

NextQueue ==
    \/ Tick
    \/ \E transaction_id \in TxIds : VerifyBegin(transaction_id)
    \/ \E transaction_id \in TxIds : Arrive(transaction_id)
    \/ \E transaction_id \in TxIds : VerifyBeginPending(transaction_id)
    \/ VerifyEvidence
    \/ VerifyAssemble
    \/ VerifyPersist
    \/ VerifyReturn

SpecQueue == Init /\ [][NextQueue]_vars

-----------------------------------------------------------------------------
(* Calls made while some of the chains cannot be reached.  Which chains are *)
(* reachable is a fact of the surroundings that the canister never reads:   *)
(* perform_cross_chain_verification makes no call out (lib.rs 372-411).     *)

\* the chains of perform_cross_chain_verification, in its order
Chains ==
    [i \in 1..Len(perform_cross_chain_verification(<<>>, 0)) |->
        perform_cross_chain_verification(<<>>, 0)[i].blockchain]

\* lines 210-214, the chains in down being unreachable for the whole call
VerifyBeginDegraded(transaction_id, down) ==
    /\ pc = "idle"
    /\ Started < MaxRuns
    /\ down # {}
    /\ run' = [NoRun EXCEPT !.transaction_id = transaction_id,
                            !.now = time,
                            !.block_hash = generate_block_hash(transaction_id, time),
                            !.unavailable = down]
    /\ pc' = "evidence"
    /\ response' = NoResponse
    /\ UNCHANGED <<platform, tables, time, completed>>

NextAdapters ==
    \/ Tick
    \/ \E transaction_id \in TxIds : VerifyBegin(transaction_id)
    \/ \E transaction_id \in TxIds :
       \E down \in SUBSET {Chains[i] : i \in 1..Len(Chains)} :
          VerifyBeginDegraded(transaction_id, down)
    \/ VerifyEvidence
    \/ VerifyAssemble
    \/ VerifyPersist
    \/ VerifyReturn

SpecAdapters == Init /\ [][NextAdapters]_vars

-----------------------------------------------------------------------------
(* Lines 216-232 one await at a time.  The six evidence stages are awaited  *)
(* one after the other, each bound to its local before the next is called.  *)

\* the locals bound by lines 217, 220, 223, 226, 229, 232, in this order
StageNames ==
    <<"cross_chain_verification", "quantum_signature", "zero_knowledge_proof",
      "atomic_swap_details", "layer2_optimization", "sharding_verification">>

\* what the i-th stage returns
StageValue(i, transaction_id, now) ==
    CASE i = 1 -> perform_cross_chain_verification(transaction_id, now)
      [] i = 2 -> generate_quantum_signature(transaction_id, now)
      [] i = 3 -> create_zero_knowledge_proof(transaction_id, now)
      [] i = 4 -> verify_atomic_swap(transaction_id, now)
      [] i = 5 -> apply_layer2_optimization(transaction_id, now)
      [] i = 6 -> verify_sharding(transaction_id, now)

\* where a call stands before its i-th stage; after the last, at line 235
StagePc(i) ==
    IF i = 1 THEN "evidence"
    ELSE IF i > Len(StageNames) THEN "assemble"
    ELSE StageNames[i]

\* the stages awaited up to the fifth only, line 235 reached without the sixth
VerifyStage_early(i) ==
    /\ pc = StagePc(i)
    /\ run' = [run EXCEPT ![StageNames[i]] = StageValue(i, run.transaction_id, time)]
    /\ pc' = IF i >= 5 THEN "assemble" ELSE StagePc(i + 1)
    /\ UNCHANGED <<platform, tables, time, response, completed>>

\* the i-th of the awaits of lines 217-232
VerifyStage(i) ==
    /\ pc = StagePc(i)
    /\ run' = [run EXCEPT ![StageNames[i]] = StageValue(i, run.transaction_id, time)]
    /\ pc' = StagePc(i + 1)
    /\ UNCHANGED <<platform, tables, time, response, completed>>

NextStages ==
    \/ Tick
    \/ \E transaction_id \in TxIds : VerifyBegin(transaction_id)
    \/ \E i \in 1..Len(StageNames) : VerifyStage(i)
    \/ VerifyAssemble
    \/ VerifyPersist
    \/ VerifyReturn

SpecStages == Init /\ [][NextStages]_vars

-----------------------------------------------------------------------------
(* achieve_consensus and the steps after the evidence stage, applied to     *)
(* every evidence sequence over the configured chains: the first n chains,  *)
(* each reporting success or failure.                                        *)

\* the evidence of the first Len(flags) chains, chain i reporting flags[i]
EvidenceWith(transaction_id, now, flags) ==
    [i \in 1..Len(flags) |->
        [perform_cross_chain_verification(transaction_id, now)[i] EXCEPT
            !.verification_status = flags[i],
            !.confirmation_count = IF flags[i] THEN @ ELSE 0]]

EvidenceInputs(transaction_id, now) ==
    {EvidenceWith(transaction_id, now, flags) :
        flags \in UNION {[1..n -> BOOLEAN] :
            n \in 0..Len(perform_cross_chain_verification(transaction_id, now))}}

\* a call that has reached line 235 holding the evidence drawn
InitEvidence ==
    /\ TRANSACTIONS = Some(EmptyMap)
    /\ MERKLE_TREES = Some(EmptyMap)
    /\ CONSENSUS_PROOFS = Some(EmptyMap)
    /\ VERIFICATION_LOGS = Some(EmptyMap)
    /\ time = 0
    /\ pc = "assemble"
    /\ \E transaction_id \in TxIds :
       \E evidence \in EvidenceInputs(transaction_id, 0) :
          run = [NoRun EXCEPT
              !.transaction_id = transaction_id,
              !.now = 0,
              !.block_hash = generate_block_hash(transaction_id, 0),
              !.cross_chain_verification = evidence,
              !.quantum_signature = generate_quantum_signature(transaction_id, 0),
              !.zero_knowledge_proof = create_zero_knowledge_proof(transaction_id, 0),
              !.atomic_swap_details = verify_atomic_swap(transaction_id, 0),
              !.layer2_optimization = apply_layer2_optimization(transaction_id, 0),
              !.sharding_verification = verify_sharding(transaction_id, 0)]
    /\ response = NoResponse
    /\ completed = [id \in AllIds |-> 0]
    /\ stable = None
    /\ pending = [id \in TxIds |-> 0]

NextEvidence ==
    \/ VerifyAssemble
    \/ VerifyPersist
    \/ VerifyReturn
    \/ \E transaction_id \in TxIds : GetTransaction(transaction_id)
    \/ \E transaction_id \in TxIds : GetVerificationLogs(transaction_id)

SpecEvidence == InitEvidence /\ [][NextEvidence]_vars

-----------------------------------------------------------------------------
(* Vocabulary of the properties.                                            *)

\* the evidence entries with verification_status == true
SuccessCount(evidence) ==
    Cardinality({i \in 1..Len(evidence) : evidence[i].verification_status})

\* the call in execution has built its consensus proof and record
Assembled == pc \in {"persist", "return"}

\* the keys of a table
Keys(table) == IF table # None THEN DOMAIN Unwrap(table) ELSE {}

\* the call in execution has written the tables and not yet returned
InFlight(transaction_id) == pc = "return" /\ run.transaction_id = transaction_id

-----------------------------------------------------------------------------
(* The steps after the evidence stage, applied to every outcome of the five *)
(* enrichers that their return type Option allows: each either the value    *)
(* the enricher builds or None.                                             *)

\* what an enricher may hand back: its value, or None
OrNone(enrichment) == {enrichment, None}

\* a call that has reached line 235 holding the enrichments drawn
InitEnrichment ==
    /\ TRANSACTIONS = Some(EmptyMap)
    /\ MERKLE_TREES = Some(EmptyMap)
    /\ CONSENSUS_PROOFS = Some(EmptyMap)
    /\ VERIFICATION_LOGS = Some(EmptyMap)
    /\ time = 0
    /\ pc = "assemble"
    /\ \E transaction_id \in TxIds :
       \E qs \in OrNone(generate_quantum_signature(transaction_id, 0)) :
       \E zk \in OrNone(create_zero_knowledge_proof(transaction_id, 0)) :
       \E swap \in OrNone(verify_atomic_swap(transaction_id, 0)) :
       \E l2 \in OrNone(apply_layer2_optimization(transaction_id, 0)) :
       \E shard \in OrNone(verify_sharding(transaction_id, 0)) :
          run = [NoRun EXCEPT
              !.transaction_id = transaction_id,
              !.now = 0,
              !.block_hash = generate_block_hash(transaction_id, 0),
              !.cross_chain_verification =
                  perform_cross_chain_verification(transaction_id, 0),
              !.quantum_signature = qs,
              !.zero_knowledge_proof = zk,
              !.atomic_swap_details = swap,
              !.layer2_optimization = l2,
              !.sharding_verification = shard]
    /\ response = NoResponse
    /\ completed = [id \in AllIds |-> 0]
    /\ stable = None
    /\ pending = [id \in TxIds |-> 0]

SpecEnrichment == InitEnrichment /\ [][NextEvidence]_vars

-----------------------------------------------------------------------------
(* Properties.                                                              *)

\* C1: the ConsensusProof that achieve_consensus builds from an evidence
\* sequence has achieved_consensus exactly when the number of entries with
\* verification_status true reaches its consensus_threshold, for every
\* success count from 0 to the length of the evidence.
C1_ConsensusCorrectness ==
    Assembled =>
        run.consensus_proof.achieved_consensus
            = (SuccessCount(run.cross_chain_verification)
                  >= run.consensus_proof.consensus_threshold)

InformationalStatuses == {"QuantumSecured", "Layer2Optimized", "ShardingVerified"}

\* the status of a record follows the achieved_consensus of a proof
StatusFollows(record, proof) ==
    /\ record.status = "CrossChainConfirmed" <=> proof.achieved_consensus
    /\ record.status = "Failed" <=> ~proof.achieved_consensus
    /\ record.status \notin InformationalStatuses

\* C2: the record a call assembles, and the record it persists, has status
\* CrossChainConfirmed exactly when the consensus proof of the same call has
\* achieved_consensus, Failed exactly when it has not, and never one of the
\* informational statuses.
C2_StatusFollowsConsensus ==
    /\ Assembled => StatusFollows(run.transaction, run.consensus_proof)
    /\ \A id \in Keys(TRANSACTIONS) :
          /\ id \in Keys(CONSENSUS_PROOFS)
          /\ StatusFollows(Unwrap(TRANSACTIONS)[id], Unwrap(CONSENSUS_PROOFS)[id])

\* a call has persisted a record with status CrossChainConfirmed under a proof
\* that achieved consensus, and returned
C2_Witness ==
    /\ response.op = "verify_transaction"
    /\ \E id \in Keys(TRANSACTIONS) \cap Keys(CONSENSUS_PROOFS) :
          /\ Unwrap(TRANSACTIONS)[id].status = "CrossChainConfirmed"
          /\ Unwrap(CONSENSUS_PROOFS)[id].achieved_consensus

C4_RoundTrip ==
    (response.op = "verify_transaction" /\ response.result.tag = "Ok")
    => get_transaction(response.result.value.transaction_id)
           = Ok(response.result.value)

\* verify_transaction has returned a record and get_transaction finds one
C4_Witness ==
    /\ response.op = "verify_transaction"
    /\ response.result.tag = "Ok"
    /\ get_transaction(response.result.value.transaction_id).tag = "Ok"

\* the evidence of scenario A: Ethereum, Polygon, Solana and ICP all succeed,
\* with 12, 15, 20 and 8 confirmations
ScenarioA(evidence) ==
    /\ Len(evidence) = 4
    /\ [i \in 1..4 |-> evidence[i].blockchain]
           = <<"Ethereum", "Polygon", "Solana", "ICP">>
    /\ [i \in 1..4 |-> evidence[i].confirmation_count] = <<12, 15, 20, 8>>
    /\ \A i \in 1..4 : evidence[i].verification_status

\* C5: when a call has returned whose four adapters all succeeded with 12, 15,
\* 20 and 8 confirmations under threshold 3, its proof has achieved_consensus,
\* the returned status is CrossChainConfirmed, and get_transaction returns a
\* record with exactly 4 cross_chain_verification entries.
C5_ScenarioA ==
    (/\ response.op = "verify_transaction"
     /\ response.result.tag = "Ok"
     /\ ScenarioA(response.result.value.cross_chain_verification)
     /\ response.arg \in Keys(CONSENSUS_PROOFS)
     /\ Unwrap(CONSENSUS_PROOFS)[response.arg].consensus_threshold = 3)
    => /\ Unwrap(CONSENSUS_PROOFS)[response.arg].achieved_consensus
       /\ response.result.value.status = "CrossChainConfirmed"
       /\ get_transaction(response.arg).tag = "Ok"
       /\ Len(get_transaction(response.arg).value.cross_chain_verification) = 4

\* a call under scenario A has returned
C5_Witness ==
    /\ response.op = "verify_transaction"
    /\ response.result.tag = "Ok"
    /\ ScenarioA(response.result.value.cross_chain_verification)
    /\ response.arg \in Keys(CONSENSUS_PROOFS)
    /\ Unwrap(CONSENSUS_PROOFS)[response.arg].consensus_threshold = 3

\* a is an initial segment of b
IsPrefix(a, b) == Len(a) <= Len(b) /\ SubSeq(b, 1, Len(a)) = a

\* C6: the verification log is append-only: in every step, for every
\* transaction_id, the log before the step is a prefix of the log after it.
C6_LogAppendOnly ==
    [][\A id \in AllIds :
          IsPrefix(get_verification_logs(id), get_verification_logs(id)')]_vars

\* a log that already had an entry has been appended to
C6_Witness == \E id \in AllIds : Len(get_verification_logs(id)) >= 2

\* C7: after n calls of verify_transaction(id) have returned, the log of id
\* has exactly n entries; a call that has written and not yet returned
\* accounts for one more.
C7_OneEntryPerRun ==
    \A id \in AllIds :
        Len(get_verification_logs(id))
            = completed[id] + (IF InFlight(id) THEN 1 ELSE 0)

\* two calls for the same id have returned
C7_Witness == \E id \in TxIds : completed[id] = 2 /\ pc = "idle"

TerminalStatuses == {"CrossChainConfirmed", "Failed"}

\* the log of transaction_id ends with the entry of the call that returned
\* record, and has one entry per call returned
LoggedRun(transaction_id, record) ==
    LET log == get_verification_logs(transaction_id)
    IN  /\ Len(log) = completed[transaction_id]
        /\ Len(log) >= 1
        /\ log[Len(log)].transaction_id = transaction_id
        /\ log[Len(log)].timestamp = record.timestamp
        /\ log[Len(log)].blockchain_hash = Some(record.block_hash)

\* C8: every call of verify_transaction that has started eventually returns,
\* with a record in a terminal status and its entry appended to the log of
\* its transaction_id.
C8_RunCompletes ==
    \A id \in TxIds :
        (pc = "evidence" /\ run.transaction_id = id)
        ~> (/\ pc = "idle"
            /\ response.op = "verify_transaction"
            /\ response.arg = id
            /\ response.result.value.status \in TerminalStatuses
            /\ LoggedRun(id, response.result.value))

\* a call has returned and its log entry is there
C8_Witness ==
    /\ pc = "idle"
    /\ response.op = "verify_transaction"
    /\ response.result.value.status \in TerminalStatuses
    /\ LoggedRun(response.arg, response.result.value)

\* no call of verify_transaction has written under transaction_id
NothingPersisted(transaction_id) ==
    completed[transaction_id] = 0 /\ ~InFlight(transaction_id)

\* C9: for a transaction_id under which no call of verify_transaction has
\* persisted anything, get_transaction returns the not-found error, never a
\* record, and get_verification_logs returns the empty sequence.
C9_UnknownId ==
    /\ \A id \in AllIds :
          NothingPersisted(id) =>
              /\ get_transaction(id).tag = "Err"
              /\ get_transaction(id).value = "Transaction not found"
              /\ get_verification_logs(id) = <<>>
    /\ (response.op = "get_transaction" /\ NothingPersisted(response.arg))
          => /\ response.result.tag = "Err"
             /\ response.result.value = "Transaction not found"
    /\ (response.op = "get_verification_logs" /\ NothingPersisted(response.arg))
          => response.result = <<>>

\* get_transaction has answered for an id nothing was persisted under, while
\* another id has a record
C9_Witness ==
    /\ response.op = "get_transaction"
    /\ NothingPersisted(response.arg)
    /\ response.result.tag = "Err"
    /\ Keys(TRANSACTIONS) # {}

QueryOps == {"get_transaction", "get_all_transactions", "get_verification_logs"}

\* C10: a step in which get_transaction, get_all_transactions or
\* get_verification_logs answers leaves the four tables unchanged, whether it
\* answers with a value or with an error.
C10_QueriesReadOnly ==
    [][(response' # response /\ response'.op \in QueryOps)
          => UNCHANGED tables]_vars

\* get_transaction has answered with an error while the tables hold records
C10_Witness ==
    /\ response.op = "get_transaction"
    /\ response.result.tag = "Err"
    /\ Keys(TRANSACTIONS) # {}
    /\ Keys(VERIFICATION_LOGS) # {}

\* C11: a step in which verify_cross_chain_transaction answers leaves the
\* four tables unchanged and binds no local of the pipeline: no enricher
\* result, no record, no tree and no proof is produced.
C11_CrossChainPersistsNothing ==
    [][(response' # response /\ response'.op = "verify_cross_chain_transaction")
          => (UNCHANGED tables /\ run' = NoRun /\ pc' = "idle")]_vars

\* verify_cross_chain_transaction has answered while the tables hold records
C11_Witness ==
    /\ response.op = "verify_cross_chain_transaction"
    /\ response.result.tag = "Ok"
    /\ response.result.value.blockchain = "Multi-Chain"
    /\ Keys(TRANSACTIONS) # {}

\* the error strings the canister's entry points return
ErrorStrings == {"Transaction not found", "Transactions not initialized"}

\* C12: when create_quantum_secure_transaction has returned Ok(id), id is a
\* generated id, the transactions table holds a record whose transaction_id
\* is id, and the log of id has one entry; and an error of the pipeline is
\* what the call returns in place of an id.
C12_CreateRunsPipeline ==
    /\ (response.op = "create_quantum_secure_transaction"
            /\ response.result.tag = "Ok")
        => /\ response.result.value \in {QsTxId(uuid) : uuid \in Uuids}
           /\ get_transaction(response.result.value).tag = "Ok"
           /\ get_transaction(response.result.value).value.transaction_id
                  = response.result.value
           /\ Len(get_verification_logs(response.result.value)) = 1
    /\ response.op = "create_quantum_secure_transaction"
        => response.result.tag = "Ok"
    /\ \A id \in AllIds : \A e \in ErrorStrings :
          CreateResult(id, Err(e)) = Err(e)

\* create_quantum_secure_transaction has returned an id while another id has
\* a record too
C12_Witness ==
    /\ response.op = "create_quantum_secure_transaction"
    /\ response.result.tag = "Ok"
    /\ get_transaction(response.result.value).tag = "Ok"
    /\ Cardinality(Keys(TRANSACTIONS)) >= 2

\* each of the four statics holds a table
AllSome ==
    /\ TRANSACTIONS # None
    /\ MERKLE_TREES # None
    /\ CONSENSUS_PROOFS # None
    /\ VERIFICATION_LOGS # None

\* none of the four statics holds a table
AllNone ==
    /\ TRANSACTIONS = None
    /\ MERKLE_TREES = None
    /\ CONSENSUS_PROOFS = None
    /\ VERIFICATION_LOGS = None

\* C13: pre_upgrade saves the contents of all four tables as one snapshot,
\* post_upgrade restores all four to exactly those contents, nothing changes
\* the snapshot in between, and in every state either all four tables are
\* there or none is.
C13_SnapshotAtomic ==
    /\ [](AllSome \/ AllNone)
    /\ [][(pc = "idle" /\ pc' = "upgrade")
            => /\ AllSome
               /\ AllNone'
               /\ stable' = Some(<<Unwrap(TRANSACTIONS), Unwrap(MERKLE_TREES),
                                   Unwrap(CONSENSUS_PROOFS),
                                   Unwrap(VERIFICATION_LOGS)>>)]_vars
    /\ [][pc = "upgrade"
            => /\ stable' = stable
               /\ pc' = "idle"
                    => /\ AllSome'
                       /\ <<Unwrap(TRANSACTIONS'), Unwrap(MERKLE_TREES'),
                            Unwrap(CONSENSUS_PROOFS'), Unwrap(VERIFICATION_LOGS')>>
                              = Unwrap(stable)]_vars

\* tables with records and logs have been through an upgrade and are as saved
C13_Witness ==
    /\ pc = "idle"
    /\ stable # None
    /\ AllSome
    /\ Keys(TRANSACTIONS) # {}
    /\ Keys(VERIFICATION_LOGS) # {}
    /\ <<Unwrap(TRANSACTIONS), Unwrap(MERKLE_TREES),
         Unwrap(CONSENSUS_PROOFS), Unwrap(VERIFICATION_LOGS)>> = Unwrap(stable)

\* C14: when a call of verify_transaction(id) is outstanding while another
\* run for the same id executes, both go through the pipeline and persist:
\* the persist step of every run puts that run's record in the single slot of
\* its id, whatever was there, and appends that run's entry to the log of the
\* id; no other step changes the slot; and the log of the id has one entry
\* per run that has persisted.
C14_LastWriterWins ==
    /\ [][(pc = "persist" /\ pc' = "return")
            => /\ get_transaction(run.transaction_id)' = Ok(run.transaction)
               /\ LET before == get_verification_logs(run.transaction_id)
                      after == get_verification_logs(run.transaction_id)'
                  IN  /\ Len(after) = Len(before) + 1
                      /\ SubSeq(after, 1, Len(before)) = before
                      /\ after[Len(after)].timestamp = run.now
                      /\ after[Len(after)].blockchain_hash = Some(run.block_hash)]_vars
    /\ [][pc # "persist"
            => \A id \in TxIds : get_transaction(id)' = get_transaction(id)]_vars
    /\ [](\A id \in TxIds :
            Len(get_verification_logs(id))
                = completed[id] + (IF InFlight(id) THEN 1 ELSE 0))

\* a call that arrived while an earlier run for the same id was executing has
\* persisted at a later time: the slot holds its record, not the earlier
\* run's, and the log holds the entries of both in the order they persisted
C14_Witness ==
    /\ pc = "return"
    /\ run.overlapped
    /\ LET id == run.transaction_id
           log == get_verification_logs(id)
       IN  /\ completed[id] = 1
           /\ get_transaction(id) = Ok(run.transaction)
           /\ Len(log) = 2
           /\ log[1].timestamp < log[2].timestamp
           /\ log[2].timestamp = run.now

\* what a table holds under a key
Entry(table, k) == IF k \in Keys(table) THEN Some(Unwrap(table)[k]) ELSE None

RunPositions == {"evidence", "assemble", "persist", "return"}

\* C15: every step of a run of verify_transaction(id) leaves the entries of
\* every other transaction_id in all four tables as they were, and every step
\* of the run other than the persist step leaves the four tables unchanged.
C15_MutationScopedToKey ==
    [][(pc \in RunPositions)
         => /\ \A other \in AllIds \ {run.transaction_id} :
                 /\ Entry(TRANSACTIONS, other)' = Entry(TRANSACTIONS, other)
                 /\ Entry(MERKLE_TREES, other)' = Entry(MERKLE_TREES, other)
                 /\ Entry(CONSENSUS_PROOFS, other)' = Entry(CONSENSUS_PROOFS, other)
                 /\ Entry(VERIFICATION_LOGS, other)' = Entry(VERIFICATION_LOGS, other)
            /\ (pc # "persist" => UNCHANGED tables)]_vars

\* a run has persisted while the four tables held entries of another id
C15_Witness ==
    /\ pc = "return"
    /\ Entry(TRANSACTIONS, run.transaction_id) = Some(run.transaction)
    /\ \E other \in AllIds \ {run.transaction_id} :
          /\ other \in Keys(TRANSACTIONS)
          /\ other \in Keys(MERKLE_TREES)
          /\ other \in Keys(CONSENSUS_PROOFS)
          /\ other \in Keys(VERIFICATION_LOGS)

\* C16: for every transaction_id with a stored record, a MerkleTree is stored
\* under the same id and the length of the record's merkle_proof equals that
\* tree's leaf_count.
C16_ProofLengthIsLeafCount ==
    \A id \in Keys(TRANSACTIONS) :
        /\ id \in Keys(MERKLE_TREES)
        /\ Len(Unwrap(TRANSACTIONS)[id].merkle_proof)
               = Unwrap(MERKLE_TREES)[id].leaf_count

\* a record and its tree are stored, the proof as long as the four leaves
C16_Witness ==
    \E id \in Keys(TRANSACTIONS) :
        /\ id \in Keys(MERKLE_TREES)
        /\ Len(Unwrap(TRANSACTIONS)[id].merkle_proof) = 4

\* CrossChainConfirmed and the statuses declared after it (lib.rs 112-120)
CrossChainConfirmedOrLater ==
    {"CrossChainConfirmed", "QuantumSecured", "Layer2Optimized", "ShardingVerified"}

\* C17: every stored record whose status is CrossChainConfirmed or later has
\* at least one entry in cross_chain_verification.
C17_ConfirmedHasEvidence ==
    \A id \in Keys(TRANSACTIONS) :
        Unwrap(TRANSACTIONS)[id].status \in CrossChainConfirmedOrLater
            => Len(Unwrap(TRANSACTIONS)[id].cross_chain_verification) >= 1

\* a record in status CrossChainConfirmed is stored with its evidence
C17_Witness ==
    \E id \in Keys(TRANSACTIONS) :
        /\ Unwrap(TRANSACTIONS)[id].status = "CrossChainConfirmed"
        /\ Unwrap(TRANSACTIONS)[id].cross_chain_verification # <<>>

\* the MerkleTrees built so far: the stored ones and the one held by the run
\* in execution
BuiltTrees ==
    {Unwrap(MERKLE_TREES)[id] : id \in Keys(MERKLE_TREES)}
        \cup (IF Assembled THEN {run.merkle_tree} ELSE {})

\* C18: every MerkleTree built has as many proof paths as leaf hashes, that
\* number is its leaf_count, and path i is the path of leaf i (it starts from
\* leaf_hashes[i]).
C18_OnePathPerLeaf ==
    \A tree \in BuiltTrees :
        /\ Len(tree.proof_paths) = Len(tree.leaf_hashes)
        /\ Len(tree.leaf_hashes) = tree.leaf_count
        /\ \A i \in 1..Len(tree.proof_paths) :
              tree.proof_paths[i][1] = tree.leaf_hashes[i]

\* a tree with its four leaves and four paths is stored
C18_Witness ==
    \E id \in Keys(MERKLE_TREES) :
        /\ Unwrap(MERKLE_TREES)[id] \in BuiltTrees
        /\ Len(Unwrap(MERKLE_TREES)[id].proof_paths) = 4
        /\ Unwrap(MERKLE_TREES)[id].leaf_count = 4

\* the least d with 2^d >= n, for n >= 1
CeilLog2(n) == CHOOSE d \in 0..n : 2^d >= n /\ (d = 0 \/ 2^(d - 1) < n)

\* the positions of path i of tree that hold a sibling: an entry other than
\* the hash of leaf i itself
SiblingEntries(tree, i) ==
    {j \in 1..Len(tree.proof_paths[i]) :
        tree.proof_paths[i][j] # tree.leaf_hashes[i]}

PairHash(left, right) == generate_merkle_root(<<left, right>>)

\* the hash reached from node through the entries of path, entry j taken as
\* the left or the right sibling as positions[j] says
RECURSIVE Recompute(_, _, _)
Recompute(node, path, positions) ==
    IF path = <<>> THEN node
    ELSE Recompute(IF Head(positions) = "left"
                   THEN PairHash(Head(path), node)
                   ELSE PairHash(node, Head(path)),
                   Tail(path), Tail(positions))

\* verify(leaf, proof_path, root): the recomputation from leaf through
\* proof_path ends in root.  The code's paths record no left/right position,
\* so any assignment of positions is accepted.
verify(leaf, proof_path, root) ==
    \E positions \in [1..Len(proof_path) -> {"left", "right"}] :
        Recompute(leaf, proof_path, positions) = root

\* C20: for every MerkleTree built and every leaf index i, recomputing pairwise
\* hashes from leaf i through proof_paths[i] yields root_hash.
C20_ProofSoundness ==
    \A tree \in BuiltTrees :
        \A i \in 1..Len(tree.leaf_hashes) :
            verify(tree.leaf_hashes[i], tree.proof_paths[i], tree.root_hash)

ChainNames(evidence) == [i \in 1..Len(evidence) |-> evidence[i].blockchain]

ConfiguredOrder == <<"Ethereum", "Polygon", "Solana", "ICP">>

\* C22: the verification stage lists Ethereum, Polygon, Solana, ICP in this
\* order; the evidence of every record assembled or stored lists chains in
\* this order; and the ConsensusProof built from it has as participating_chains
\* the chain names of all its entries in their order, those with
\* verification_status false included.
C22_ChainOrder ==
    /\ \A id \in TxIds :
          ChainNames(perform_cross_chain_verification(id, time)) = ConfiguredOrder
    /\ Assembled
          => LET names == ChainNames(run.transaction.cross_chain_verification)
             IN  /\ names = SubSeq(ConfiguredOrder, 1, Len(names))
                 /\ run.consensus_proof.participating_chains = names
    /\ \A id \in Keys(TRANSACTIONS) :
          LET names == ChainNames(Unwrap(TRANSACTIONS)[id].cross_chain_verification)
          IN  /\ names = SubSeq(ConfiguredOrder, 1, Len(names))
              /\ id \in Keys(CONSENSUS_PROOFS)
              /\ Unwrap(CONSENSUS_PROOFS)[id].participating_chains = names

\* a record with evidence of the four chains, one of them not verified, is
\* stored with a ConsensusProof that lists the four
C22_Witness ==
    \E id \in Keys(TRANSACTIONS) :
        LET evidence == Unwrap(TRANSACTIONS)[id].cross_chain_verification
        IN  /\ id \in Keys(CONSENSUS_PROOFS)
            /\ Len(evidence) = 4
            /\ \E i \in 1..4 : ~evidence[i].verification_status
            /\ Len(Unwrap(CONSENSUS_PROOFS)[id].participating_chains) = 4

\* the enrichment fields of a run's locals or of a record, in order
Enrichments(r) ==
    <<r.quantum_signature, r.zero_knowledge_proof, r.atomic_swap_details,
      r.layer2_optimization, r.sharding_verification>>

\* C23: whichever of the five enrichers hand back None, the call goes on: the
\* record assembled has exactly those fields None and the others as handed
\* back, its status is the one of a run with all five present, the record is
\* the one stored, and the call answers Ok.
C23_EnrichmentFailuresTolerated ==
    /\ Assembled
          => /\ Enrichments(run.transaction) = Enrichments(run)
             /\ run.transaction.status = "CrossChainConfirmed"
    /\ pc = "return"
          => get_transaction(run.transaction_id) = Ok(run.transaction)
    /\ response.op = "verify_transaction" => response.result.tag = "Ok"

\* a record with some enrichments missing and some present has been stored
C23_Witness ==
    /\ pc = "return"
    /\ get_transaction(run.transaction_id) = Ok(run.transaction)
    /\ run.transaction.quantum_signature = None
    /\ run.transaction.sharding_verification = None
    /\ run.transaction.zero_knowledge_proof # None
    /\ run.transaction.status = "CrossChainConfirmed"

\* text starts with "0x" and is 64 characters long
IsHash64(text) == Len(text) = 64 /\ SubSeq(text, 1, 2) = <<"0", "x">>

\* C24: for every identifier and every time, generate_block_hash and
\* generate_transaction_hash return a string that starts with "0x" and is
\* exactly 64 characters long; so is the block_hash of every call in execution.
C24_HashShape ==
    /\ \A id \in AllIds : IsHash64(generate_block_hash(id, time))
    /\ \A policy_id \in PolicyIds : IsHash64(generate_transaction_hash(policy_id, time))
    /\ pc \in RunPositions => IsHash64(run.block_hash)

MaxLeaves == 2

\* leaf hashes to build roots from, some a part of another
LeafTexts == {<<"a">>, <<"b">>, <<"a", "b">>}

\* the non-empty leaf sequences of at most MaxLeaves leaves
LeafSequences == UNION {[1..n -> LeafTexts] : n \in 1..MaxLeaves}

\* the leaves occur in text from position from on as contiguous parts, one
\* after the other in their order
RECURSIVE OccurInOrder(_, _, _)
OccurInOrder(text, leaves, from) ==
    \/ leaves = <<>>
    \/ \E at \in from..(Len(text) - Len(Head(leaves)) + 1) :
          /\ SubSeq(text, at, at + Len(Head(leaves)) - 1) = Head(leaves)
          /\ OccurInOrder(text, Tail(leaves), at + Len(Head(leaves)))

\* C25: for every non-empty leaf sequence, every leaf occurs in the root of
\* generate_merkle_root as a contiguous part, the leaves one after the other
\* in leaf order; so it is for the root and leaves of every MerkleTree built.
C25_RootHoldsEveryLeaf ==
    /\ \A leaves \in LeafSequences :
          OccurInOrder(generate_merkle_root(leaves), leaves, 1)
    /\ \A tree \in BuiltTrees :
          OccurInOrder(tree.root_hash, tree.leaf_hashes, 1)

\* a stored tree of four leaves whose root holds them in order
C25_Witness ==
    \E id \in Keys(MERKLE_TREES) :
        LET tree == Unwrap(MERKLE_TREES)[id]
        IN  /\ Len(tree.leaf_hashes) = 4
            /\ tree.root_hash = generate_merkle_root(tree.leaf_hashes)
            /\ OccurInOrder(tree.root_hash, tree.leaf_hashes, 1)

\* the positions of a call at which one of its evidence stages is still to
\* complete
StagePositions == {StagePc(i) : i \in 1..Len(StageNames)}

\* the six evidence locals of the run hold what their stages return
StagesCompleted ==
    \A i \in 1..Len(StageNames) :
        run[StageNames[i]] = StageValue(i, run.transaction_id, run.now)

\* C26: a call of verify_transaction is at its assembly step, at its persist
\* step or past it only with the cross-chain verification and the five
\* enrichments of the call all bound; the record is assembled only in the
\* assembly step; and no step taken while a stage is outstanding, nor any
\* step other than the persist step, writes a table.
C26_AssembleAfterJoin ==
    /\ [](pc \in {"assemble", "persist", "return"} => StagesCompleted)
    /\ [][(run'.transaction # run.transaction /\ run' # NoRun)
             => (pc = "assemble" /\ StagesCompleted)]_vars
    /\ [][(pc \in StagePositions) => UNCHANGED tables]_vars
    /\ [][(tables' # tables) => (pc = "persist" /\ StagesCompleted)]_vars

\* a call has persisted its record after its six stages, awaited one by one
C26_Witness ==
    /\ pc = "return"
    /\ StagesCompleted
    /\ get_transaction(run.transaction_id) = Ok(run.transaction)
    /\ Enrichments(run.transaction) = Enrichments(run)
    /\ run.transaction.cross_chain_verification = run.cross_chain_verification

\* C27: the four tables have the same key set, and the log under every key
\* has at least one entry: a transaction_id has a stored record exactly when
\* it has a stored MerkleTree, a stored ConsensusProof and a non-empty log.
C27_SameKeys ==
    /\ Keys(MERKLE_TREES) = Keys(TRANSACTIONS)
    /\ Keys(CONSENSUS_PROOFS) = Keys(TRANSACTIONS)
    /\ Keys(VERIFICATION_LOGS) = Keys(TRANSACTIONS)
    /\ \A id \in Keys(VERIFICATION_LOGS) : Unwrap(VERIFICATION_LOGS)[id] # <<>>

\* two ids are stored in all four tables, a third is in none
C27_Witness ==
    /\ Cardinality(Keys(TRANSACTIONS)) = 2
    /\ Keys(VERIFICATION_LOGS) = Keys(TRANSACTIONS)
    /\ \E id \in AllIds : id \notin Keys(TRANSACTIONS)

\* the record, tree and proof stored under id come from one run
FromOneRun(id) ==
    LET record == Unwrap(TRANSACTIONS)[id]
        tree == Unwrap(MERKLE_TREES)[id]
        proof == Unwrap(CONSENSUS_PROOFS)[id]
    IN  /\ record.merkle_proof = tree.leaf_hashes
        /\ proof.participating_chains = ChainNames(record.cross_chain_verification)
        /\ proof.consensus_timestamp = record.timestamp

\* C28: with calls of verify_transaction for the same id outstanding
\* together, the record, the MerkleTree and the ConsensusProof stored under
\* an id always come from one and the same run: the record's merkle_proof is
\* the tree's leaf_hashes, the proof's participating_chains are the chain
\* names of the record's evidence, and the proof carries the record's time.
C28_NoTornWrites ==
    \A id \in Keys(TRANSACTIONS) :
        /\ id \in Keys(MERKLE_TREES)
        /\ id \in Keys(CONSENSUS_PROOFS)
        /\ FromOneRun(id)

\* the later of two overlapping calls has replaced, at a later time, all
\* three of what the earlier stored
C28_Witness ==
    /\ pc = "return"
    /\ run.overlapped
    /\ completed[run.transaction_id] = 1
    /\ run.now > 0
    /\ Unwrap(TRANSACTIONS)[run.transaction_id] = run.transaction
    /\ Unwrap(MERKLE_TREES)[run.transaction_id] = run.merkle_tree
    /\ Unwrap(CONSENSUS_PROOFS)[run.transaction_id] = run.consensus_proof
    /\ run.consensus_proof.consensus_timestamp = run.now

\* C29: for every transaction_id with a stored record, every log entry under
\* the id carries the id, and the last entry describes the stored record: its
\* timestamp is the record's and its blockchain_hash is Some of the record's
\* block_hash.
C29_LastEntryDescribesRecord ==
    \A id \in Keys(TRANSACTIONS) :
        LET record == Unwrap(TRANSACTIONS)[id]
            log == get_verification_logs(id)
        IN  /\ Len(log) >= 1
            /\ \A i \in 1..Len(log) : log[i].transaction_id = id
            /\ log[Len(log)].timestamp = record.timestamp
            /\ log[Len(log)].blockchain_hash = Some(record.block_hash)

\* an id verified twice, at different times: its log ends with the entry of
\* the record now stored, after one of another time
C29_Witness ==
    \E id \in Keys(TRANSACTIONS) :
        LET record == Unwrap(TRANSACTIONS)[id]
            log == get_verification_logs(id)
        IN  /\ Len(log) = 2
            /\ log[1].timestamp # record.timestamp
            /\ log[2].timestamp = record.timestamp
            /\ log[2].blockchain_hash = Some(record.block_hash)

\* C30: for every transaction_id, the timestamps of its log entries are
\* non-decreasing in log order, with calls for the same id outstanding
\* together.
C30_LogTimestampsOrdered ==
    \A id \in AllIds :
        LET log == get_verification_logs(id)
        IN  \A i, j \in 1..Len(log) :
                i < j => log[i].timestamp <= log[j].timestamp

\* the later of two overlapping calls has appended its entry, read at a later
\* time than the first entry's
C30_Witness ==
    /\ pc = "return"
    /\ run.overlapped
    /\ LET log == get_verification_logs(run.transaction_id)
       IN  /\ Len(log) = 2
           /\ log[1].timestamp + 1 = log[2].timestamp
           /\ log[2].timestamp = time

=============================================================================
